---------------------------- MODULE Spec2Model ----------------------------
(***************************************************************************)
(* A model of sphinx_llm/txt.py: the MarkdownGenerator that converts the  *)
(* HTML files of a Sphinx output directory to Markdown and concatenates   *)
(* them into llms.txt.                                                     *)
(*                                                                         *)
(* Text is a sequence of characters; a character is a one-character       *)
(* string, except the three non-ASCII characters the code handles, which  *)
(* are named: "PILCROW" (U+00B6), "A_CIRC" (U+00C2), "NBSP" (U+00A0), and  *)
(* the backtick, named "BACKTICK".                                         *)
(***************************************************************************)
EXTENDS Integers, Sequences, FiniteSets, TLC

VARIABLES
    html_content,   \* the local buffer of _html_to_markdown
    stage,          \* position inside _html_to_markdown
    source,         \* the argument _html_to_markdown was called with
    builder,        \* self.builder
    generated_markdown_files,   \* self.generated_markdown_files
    fs,             \* the files of the output directory: path -> text
    pc,             \* position inside generate_markdown_files
    exception,      \* whether the call in progress (or the last one) got an exception
    html_files,     \* the local list html_files
    idx,            \* the index of the for loop in progress
    warned,         \* the files the call's "Failed to convert" warnings name
    llms_opens,     \* how often the call has opened llms.txt
    outcome,        \* how the last call ended
    runs            \* the calls so far that got past the two guards

convVars == <<html_content, stage, source>>
batchVars == <<builder, generated_markdown_files, fs, pc, exception, html_files,
               idx, warned, llms_opens, outcome, runs>>
vars == <<convVars, batchVars>>

-----------------------------------------------------------------------------
\* Python's re, restricted to the constructs txt.py uses.  A pattern is a
\* sequence of items: a literal character, one character of a class, the
\* greedy star of a class (not '>', not QUOTE, whitespace) or the lazy star of
\* any character (the non-greedy dot-star under re.DOTALL).

Lit(cs) == <<[k |-> "lit", c |-> cs]>>
One(cls) == <<[k |-> "one", c |-> cls]>>
GStar(cls) == <<[k |-> "gstar", c |-> cls]>>
Lazy == <<[k |-> "lazy", c |-> "any"]>>

\* str.isspace / \s of a str pattern, over the characters of the model
WhiteSpace == {" ", "\t", "\n", "\r", "\f", "NBSP"}

InClass(cls, ch) ==
    CASE cls = "notgt" -> ch # ">"
      [] cls = "notquote" -> ch # "\""
      [] cls = "space" -> ch \in WhiteSpace
      [] cls = "pilcrow" -> ch \in {"A_CIRC", "PILCROW"}
      [] cls = "any" -> TRUE

\* the least position of the set hits, or none when the set is empty
FirstPos(hits, none) ==
    IF hits = {} THEN none ELSE CHOOSE j \in hits : \A x \in hits : j <= x

\* whether the text lit stands in s at position i
StartsAt(s, i, lit) ==
    /\ i + Len(lit) - 1 <= Len(s)
    /\ \A j \in 1..Len(lit) : s[i + j - 1] = lit[j]

\* the position after the run of cls characters that starts at i
RunEnd(cls, s, i) == FirstPos({j \in i..Len(s) : ~InClass(cls, s[j])}, Len(s) + 1)

\* whether item it can begin at position j of s (a star can begin anywhere)
CanBegin(it, s, j) ==
    CASE it.k = "lit" -> j <= Len(s) /\ s[j] = it.c[1]
      [] it.k = "one" -> j <= Len(s) /\ InClass(it.c, s[j])
      [] OTHER -> TRUE

NoMatch == [ok |-> FALSE, ends |-> <<>>]

Then(j, r) == IF r.ok THEN [ok |-> TRUE, ends |-> <<j>> \o r.ends] ELSE NoMatch

\* Match(p, k, s, i): items k.. of p against s from position i, with the
\* backtracking order of re: a greedy star tries its longest run first, a
\* lazy star its shortest.  ends[j] is the position after item k+j-1.
\* A star skips the lengths after which the next item cannot begin.
RECURSIVE Match(_, _, _, _), TryGreedy(_, _, _, _, _), TryLazy(_, _, _, _)
Match(p, k, s, i) ==
    IF k > Len(p) THEN [ok |-> TRUE, ends |-> <<>>]
    ELSE CASE p[k].k = "lit" ->
                IF StartsAt(s, i, p[k].c)
                THEN Then(i + Len(p[k].c), Match(p, k + 1, s, i + Len(p[k].c)))
                ELSE NoMatch
           [] p[k].k = "one" ->
                IF i <= Len(s) /\ InClass(p[k].c, s[i])
                THEN Then(i + 1, Match(p, k + 1, s, i + 1)) ELSE NoMatch
           [] p[k].k = "gstar" -> TryGreedy(p, k, s, i, RunEnd(p[k].c, s, i))
           [] p[k].k = "lazy" -> TryLazy(p, k, s, i)

TryGreedy(p, k, s, i, j) ==
    LET r == IF k = Len(p) \/ CanBegin(p[k + 1], s, j)
             THEN Match(p, k + 1, s, j) ELSE NoMatch
    IN  IF r.ok THEN Then(j, r)
        ELSE IF j = i THEN NoMatch ELSE TryGreedy(p, k, s, i, j - 1)

TryLazy(p, k, s, j) ==
    LET c == IF k = Len(p) THEN j
             ELSE FirstPos({x \in j..(Len(s) + 1) : CanBegin(p[k + 1], s, x)}, Len(s) + 2)
        r == Match(p, k + 1, s, c)
    IN  IF c > Len(s) + 1 THEN NoMatch
        ELSE IF r.ok THEN Then(c, r)
        ELSE IF c > Len(s) THEN NoMatch ELSE TryLazy(p, k, s, c + 1)

\* A replacement template: literal texts and group references; a group is
\* named by the index of the pattern item it encloses.
TLit(cs) == <<[k |-> "lit", c |-> cs, g |-> 0]>>
TGrp(item) == <<[k |-> "grp", c |-> <<>>, g |-> item]>>

RECURSIVE Expand(_, _, _, _)
Expand(tpl, s, start, ends) ==
    IF tpl = <<>> THEN <<>>
    ELSE LET t == Head(tpl)
             from == IF t.g = 1 THEN start ELSE ends[t.g - 1]
         IN  (IF t.k = "lit" THEN t.c ELSE SubSeq(s, from, ends[t.g] - 1))
               \o Expand(Tail(tpl), s, start, ends)

\* re.sub(p, tpl, s): leftmost non-overlapping matches, left to right.
\* No pattern of txt.py matches the empty string, and each begins with a
\* literal or a single character: the search skips to where that can begin.
RECURSIVE SubFrom(_, _, _, _)
SubFrom(p, tpl, s, pos) ==
    LET c == FirstPos({x \in pos..Len(s) : CanBegin(p[1], s, x)}, Len(s) + 1)
        r == Match(p, 1, s, c)
    IN  IF c > Len(s) THEN SubSeq(s, pos, Len(s))
        ELSE IF r.ok
             THEN SubSeq(s, pos, c - 1) \o Expand(tpl, s, c, r.ends)
                    \o SubFrom(p, tpl, s, r.ends[Len(r.ends)])
             ELSE SubSeq(s, pos, c) \o SubFrom(p, tpl, s, c + 1)

ReSub(p, tpl, s) == SubFrom(p, tpl, s, 1)

\* <NAME, any run without '>', '>', group 1 (lazy, any characters), </NAME> ;
\* the group is the fourth item
Element(open, close) ==
    Lit(open) \o GStar("notgt") \o Lit(<<">">>) \o Lazy \o Lit(close)

Inner == TGrp(4)

\* re.sub of an element pattern by: before, group 1, after
SubElement(open, close, before, after, s) ==
    ReSub(Element(open, close), TLit(before) \o Inner \o TLit(after), s)

\* re.sub of an element pattern by the empty string
DropElement(open, close, s) == ReSub(Element(open, close), <<>>, s)

-----------------------------------------------------------------------------
\* The literal texts of the patterns and templates of _html_to_markdown.

S_script == <<"<", "s", "c", "r", "i", "p", "t">>
E_script == <<"<", "/", "s", "c", "r", "i", "p", "t", ">">>
S_style == <<"<", "s", "t", "y", "l", "e">>
E_style == <<"<", "/", "s", "t", "y", "l", "e", ">">>
S_nav == <<"<", "n", "a", "v">>
E_nav == <<"<", "/", "n", "a", "v", ">">>
S_footer == <<"<", "f", "o", "o", "t", "e", "r">>
E_footer == <<"<", "/", "f", "o", "o", "t", "e", "r", ">">>
S_div == <<"<", "d", "i", "v">>
E_div == <<"<", "/", "d", "i", "v", ">">>
S_class == <<"c", "l", "a", "s", "s", "=", "\"">>
S_related == <<"r", "e", "l", "a", "t", "e", "d">>
S_sphinxsidebar == <<"s", "p", "h", "i", "n", "x", "s", "i", "d", "e", "b", "a", "r">>
S_p == <<"<", "p">>
E_p == <<"<", "/", "p", ">">>
S_a == <<"<", "a">>
E_a == <<"<", "/", "a", ">">>
S_href == <<"h", "r", "e", "f", "=", "\"">>
S_strong == <<"<", "s", "t", "r", "o", "n", "g">>
E_strong == <<"<", "/", "s", "t", "r", "o", "n", "g", ">">>
S_b == <<"<", "b">>
E_b == <<"<", "/", "b", ">">>
S_em == <<"<", "e", "m">>
E_em == <<"<", "/", "e", "m", ">">>
S_i == <<"<", "i">>
E_i == <<"<", "/", "i", ">">>
S_li == <<"<", "l", "i">>
E_li == <<"<", "/", "l", "i", ">">>
S_pre == <<"<", "p", "r", "e">>
S_code == <<"<", "c", "o", "d", "e">>
E_code == <<"<", "/", "c", "o", "d", "e", ">">>
E_code_pre == <<"<", "/", "c", "o", "d", "e", ">", "<", "/", "p", "r", "e", ">">>
Fence == <<"BACKTICK", "BACKTICK", "BACKTICK">>

\* <hN and </hN> for N in 1..6
Digit(n) == <<"0", "1", "2", "3", "4", "5", "6", "7", "8", "9">>[n + 1]
S_h(n) == <<"<", "h", Digit(n)>>
E_h(n) == <<"<", "/", "h", Digit(n), ">">>
Hashes(n) == [i \in 1..n |-> "#"]

-----------------------------------------------------------------------------
\* _html_to_markdown, statement by statement.

\* txt.py 106-107: <div, no '>', class=QUOTE, no QUOTE, WORD, no QUOTE, QUOTE, no '>',
\* '>', lazy any, </div>
DivClass(word) ==
    Lit(S_div) \o GStar("notgt") \o Lit(S_class) \o GStar("notquote") \o Lit(word)
      \o GStar("notquote") \o Lit(<<"\"">>) \o GStar("notgt") \o Lit(<<">">>)
      \o Lazy \o Lit(E_div)

\* txt.py 100-107: remove script, style, nav, footer and the two div classes
StripNonContent(s) ==
    LET s1 == DropElement(S_script, E_script, s)
        s2 == DropElement(S_style, E_style, s1)
        s3 == DropElement(S_nav, E_nav, s2)
        s4 == DropElement(S_footer, E_footer, s3)
        s5 == ReSub(DivClass(S_related), <<>>, s4)
    IN  ReSub(DivClass(S_sphinxsidebar), <<>>, s5)

\* a heading rule whose replacement lacks the space after the hashes
ConvertHeaderNoSpace(n, s) == SubElement(S_h(n), E_h(n), Hashes(n), <<>>, s)

\* txt.py 110-115: one rule per level, h1 first
ConvertHeader(n, s) == SubElement(S_h(n), E_h(n), Hashes(n) \o <<" ">>, <<>>, s)

ConvertHeaders(s) ==
    ConvertHeader(6, ConvertHeader(5, ConvertHeader(4,
        ConvertHeader(3, ConvertHeader(2, ConvertHeader(1, s))))))

\* txt.py 118
ConvertParagraphs(s) == SubElement(S_p, E_p, <<>>, <<"\n", "\n">>, s)

\* txt.py 121: <a, no '>', href=QUOTE, group 1 (no QUOTE), QUOTE, no '>', '>',
\* group 2 (lazy any), </a>  ->  [ group 2 ]( group 1 )
LinkPattern ==
    Lit(S_a) \o GStar("notgt") \o Lit(S_href) \o GStar("notquote") \o Lit(<<"\"">>)
      \o GStar("notgt") \o Lit(<<">">>) \o Lazy \o Lit(E_a)

\* the items of the pattern that the two groups enclose
LinkUrl == 4
LinkText == 8

ConvertLinks(s) ==
    ReSub(LinkPattern,
          TLit(<<"[">>) \o TGrp(LinkText) \o TLit(<<"]", "(">>) \o TGrp(LinkUrl)
            \o TLit(<<")">>), s)

\* txt.py 124-127
ConvertEmphasis(s) ==
    LET s1 == SubElement(S_strong, E_strong, <<"*", "*">>, <<"*", "*">>, s)
        s2 == SubElement(S_b, E_b, <<"*", "*">>, <<"*", "*">>, s1)
        s3 == SubElement(S_em, E_em, <<"*">>, <<"*">>, s2)
    IN  SubElement(S_i, E_i, <<"*">>, <<"*">>, s3)

\* txt.py 130
ConvertLists(s) == SubElement(S_li, E_li, <<"-", " ">>, <<>>, s)

\* txt.py 133: <pre, no '>', '>', <code, no '>', '>', group 1 (lazy any),
\* </code></pre>
CodeBlockPattern ==
    Lit(S_pre) \o GStar("notgt") \o Lit(<<">">>) \o Lit(S_code) \o GStar("notgt")
      \o Lit(<<">">>) \o Lazy \o Lit(E_code_pre)

CodeBlockText == 7

\* txt.py 133-134: fenced blocks first, then inline code
ConvertCode(s) ==
    LET s1 == ReSub(CodeBlockPattern,
                    TLit(Fence \o <<"\n">>) \o TGrp(CodeBlockText)
                      \o TLit(<<"\n">> \o Fence), s)
    IN  SubElement(S_code, E_code, <<"BACKTICK">>, <<"BACKTICK">>, s1)

\* txt.py 137: '<', no '>', '>'  (no DOTALL needed: the class matches newlines)
StripTags(s) == ReSub(Lit(<<"<">>) \o GStar("notgt") \o Lit(<<">">>), <<>>, s)

-----------------------------------------------------------------------------
\* txt.py 141: html.unescape.  A reference is '&' followed by '#' and decimal
\* digits, or '#', 'x' or 'X' and hexadecimal digits, or 1 to 32 name
\* characters, each with an optional ';'.

DecDigits == <<"0", "1", "2", "3", "4", "5", "6", "7", "8", "9">>
HexDigits == DecDigits \o <<"a", "b", "c", "d", "e", "f">>
HexUpper == DecDigits \o <<"A", "B", "C", "D", "E", "F">>

Range(f) == {f[i] : i \in DOMAIN f}
IndexOf(f, ch) == CHOOSE i \in DOMAIN f : f[i] = ch

DigitValue(ch) ==
    IF ch \in Range(HexDigits) THEN IndexOf(HexDigits, ch) - 1
    ELSE IndexOf(HexUpper, ch) - 1

\* the number of consecutive characters of the set digits from position i on
DigitRun(digits, s, i) ==
    IF i > Len(s) THEN 0 ELSE FirstPos({j \in i..Len(s) : s[j] \notin digits}, Len(s) + 1) - i

\* int(s[from..to], base)
RECURSIVE ParseInt(_, _, _, _)
ParseInt(s, from, to, base) ==
    IF to < from THEN 0
    ELSE ParseInt(s, from, to - 1, base) * base + DigitValue(s[to])

\* chr(num) for the code points the model's texts can name; every other
\* code point is one anonymous character
Chr(num) ==
    CASE num = 9 -> "\t"
      [] num = 10 -> "\n"
      [] num = 32 -> " "
      [] num = 34 -> "\""
      [] num = 38 -> "&"
      [] num = 60 -> "<"
      [] num = 62 -> ">"
      [] num = 84 -> "T"
      [] num = 160 -> "NBSP"
      [] num = 182 -> "PILCROW"
      [] num = 194 -> "A_CIRC"
      [] OTHER -> "CHR"

\* the entries of html.entities.html5 over the names the model's texts use
Html5Names ==
    { <<"a", "m", "p">>, <<"l", "t">>, <<"g", "t">>, <<"q", "u", "o", "t">>,
      <<"n", "b", "s", "p">>, <<"p", "a", "r", "a">> }

Html5Char(name) ==
    CASE name = <<"a", "m", "p">> -> "&"
      [] name = <<"l", "t">> -> "<"
      [] name = <<"g", "t">> -> ">"
      [] name = <<"q", "u", "o", "t">> -> "\""
      [] name = <<"n", "b", "s", "p">> -> "NBSP"
      [] name = <<"p", "a", "r", "a">> -> "PILCROW"

\* each of these names is in html5 with and without its ';'
InHtml5(t) ==
    \/ t \in Html5Names
    \/ Len(t) > 1 /\ t[Len(t)] = ";" /\ SubSeq(t, 1, Len(t) - 1) \in Html5Names

Html5(t) == IF t \in Html5Names THEN Html5Char(t) ELSE Html5Char(SubSeq(t, 1, Len(t) - 1))

NameChar(ch) == ch \notin {"\t", "\n", "\f", " ", "<", "&", "#", ";"}

MaxNameLen == 32

\* the number of consecutive name characters from position i on, at most max
NameRun(s, i, max) ==
    LET hi == IF i + max - 1 < Len(s) THEN i + max - 1 ELSE Len(s)
    IN  IF i > Len(s) THEN 0 ELSE FirstPos({j \in i..hi : ~NameChar(s[j])}, hi + 1) - i

\* _replace_charref for a named reference t: the whole name, else its longest
\* prefix of two or more characters that is a name, else the text unchanged
RECURSIVE LongestPrefix(_, _)
LongestPrefix(t, x) ==
    IF x < 2 THEN <<"&">> \o t
    ELSE IF InHtml5(SubSeq(t, 1, x))
         THEN <<Html5(SubSeq(t, 1, x))>> \o SubSeq(t, x + 1, Len(t))
         ELSE LongestPrefix(t, x - 1)

ReplaceNamed(t) == IF InHtml5(t) THEN <<Html5(t)>> ELSE LongestPrefix(t, Len(t) - 1)

Semi(s, i) == IF i <= Len(s) /\ s[i] = ";" THEN 1 ELSE 0

RECURSIVE UnescapeFrom(_, _)
UnescapeFrom(s, from) ==
    LET pos == FirstPos({j \in from..Len(s) : s[j] = "&"}, Len(s) + 1)
        hash == pos + 1 <= Len(s) /\ s[pos + 1] = "#"
        nd == DigitRun(Range(DecDigits), s, pos + 2)
        hex == hash /\ pos + 2 <= Len(s) /\ s[pos + 2] \in {"x", "X"}
        nx == DigitRun(Range(HexDigits) \cup Range(HexUpper), s, pos + 3)
        nn == NameRun(s, pos + 1, MaxNameLen)
    IN  IF pos > Len(s) THEN SubSeq(s, from, Len(s))
        ELSE SubSeq(s, from, pos - 1) \o
             (IF hash /\ nd > 0
              THEN <<Chr(ParseInt(s, pos + 2, pos + 1 + nd, 10))>>
                     \o UnescapeFrom(s, pos + 2 + nd + Semi(s, pos + 2 + nd))
              ELSE IF hex /\ nx > 0
              THEN <<Chr(ParseInt(s, pos + 3, pos + 2 + nx, 16))>>
                     \o UnescapeFrom(s, pos + 3 + nx + Semi(s, pos + 3 + nx))
              ELSE IF nn > 0
              THEN ReplaceNamed(SubSeq(s, pos + 1, pos + nn + Semi(s, pos + 1 + nn)))
                     \o UnescapeFrom(s, pos + 1 + nn + Semi(s, pos + 1 + nn))
              ELSE <<"&">> \o UnescapeFrom(s, pos + 1))

\* html.unescape returns s itself when it holds no '&'
DecodeEntities(s) == UnescapeFrom(s, 1)

\* txt.py 144: newline, whitespace, newline, whitespace, newline -> two newlines
CollapseNewlines(s) ==
    ReSub(Lit(<<"\n">>) \o GStar("space") \o Lit(<<"\n">>) \o GStar("space")
            \o Lit(<<"\n">>), TLit(<<"\n", "\n">>), s)

\* txt.py 145: the class holds the two characters U+00C2 and U+00B6
RemovePilcrows(s) == ReSub(One("pilcrow"), <<>>, s)

\* txt.py 146: str.strip()
Strip(s) ==
    LET first == FirstPos({j \in 1..Len(s) : s[j] \notin WhiteSpace}, Len(s) + 1)
        \* the number of trailing whitespace characters
        back == FirstPos({j \in 1..Len(s) : s[Len(s) + 1 - j] \notin WhiteSpace}, Len(s) + 1) - 1
    IN  IF first > Len(s) THEN <<>> ELSE SubSeq(s, first, Len(s) - back)

\* txt.py 144-146
CleanWhitespace(s) == Strip(RemovePilcrows(CollapseNewlines(s)))

-----------------------------------------------------------------------------
\* txt.py 91-148: _html_to_markdown as a sequence of steps on html_content.
\* stage names the statement group that runs next; "idle": no call is active,
\* "return": line 148 has returned html_content.

Step(at, next, result) ==
    /\ stage = at
    /\ html_content' = result
    /\ stage' = next
    /\ UNCHANGED <<source, batchVars>>

StripNonContentStep == Step("strip_blocks", "headers", StripNonContent(html_content))
ConvertHeadersStep == Step("headers", "paragraphs", ConvertHeaders(html_content))
ConvertParagraphsStep == Step("paragraphs", "links", ConvertParagraphs(html_content))
ConvertLinksStep == Step("links", "emphasis", ConvertLinks(html_content))
ConvertEmphasisStep == Step("emphasis", "lists", ConvertEmphasis(html_content))
ConvertListsStep == Step("lists", "code", ConvertLists(html_content))
ConvertCodeStep == Step("code", "tags", ConvertCode(html_content))
StripTagsStep == Step("tags", "entities", StripTags(html_content))
DecodeEntitiesStep == Step("entities", "whitespace", DecodeEntities(html_content))
CleanWhitespaceStep == Step("whitespace", "return", CleanWhitespace(html_content))

ConvertNext ==
    \/ StripNonContentStep
    \/ ConvertHeadersStep
    \/ ConvertParagraphsStep
    \/ ConvertLinksStep
    \/ ConvertEmphasisStep
    \/ ConvertListsStep
    \/ ConvertCodeStep
    \/ StripTagsStep
    \/ DecodeEntitiesStep
    \/ CleanWhitespaceStep

\* the state in which _html_to_markdown(text) starts
Called(text) ==
    /\ source = text
    /\ html_content = text
    /\ stage = "strip_blocks"

\* the call _html_to_markdown(text)
CallConvert(text) ==
    /\ source' = text
    /\ html_content' = text
    /\ stage' = "strip_blocks"

-----------------------------------------------------------------------------
\* The output directory.  A path is a directory ("" is outdir itself) and a
\* file name; a name is the sequence of its dot-separated parts, so that
\* a.html.md is <<a, html, md>>.

Html == <<"h", "t", "m", "l">>
Md == <<"m", "d">>

HtmlFile(dir, stem) == [dir |-> dir, name |-> <<stem, Html>>]

\* txt.py 63: outdir / "llms.txt"
LlmsTxt == [dir |-> "", name |-> <<<<"l", "l", "m", "s">>, <<"t", "x", "t">>>>]

\* Path.name as text: the parts joined by dots
RECURSIVE NameText(_)
NameText(name) ==
    IF Len(name) = 1 THEN name[1]
    ELSE name[1] \o <<".">> \o NameText(Tail(name))

\* txt.py 81: html_file.with_name(html_file.name + '.md')
WithMd(f) == [f EXCEPT !.name = @ \o <<Md>>]

\* fnmatch of a name against "*.html"
MatchesHtml(name) == Len(name) >= 2 /\ name[Len(name)] = Html

\* txt.py 52: outdir.rglob("*.html"), every directory below outdir included
Rglob(files) == {f \in DOMAIN files : MatchesHtml(f.name)}

\* the orders in which a traversal can yield the set S
Orders(S) ==
    {o \in [1..Cardinality(S) -> S] : \A a, b \in 1..Cardinality(S) : o[a] = o[b] => a = b}

\* open(p, 'w') followed by write(text) and close()
WriteFile(files, p, text) ==
    [q \in DOMAIN files \cup {p} |-> IF q = p THEN text ELSE files[q]]

\* txt.py 67: f"# {md_file.name}\n\n"
SectionHeading(md) == <<"#", " ">> \o NameText(md.name) \o <<"\n", "\n">>

\* txt.py 67-69: the three writes for one generated file
Section(files, md) == SectionHeading(md) \o files[md] \o <<"\n", "\n">>

\* the calls of generate_markdown_files the model follows past the guards
MaxRuns == 2

\* the HTML pages a build can have left in the output directory
PageA == HtmlFile("", <<"a">>)
PageSubA == HtmlFile("sub", <<"a">>)
PageB == HtmlFile("", <<"b">>)
Pages == {PageA, PageSubA, PageB}

PageText(f) ==
    CASE f = PageA -> <<"<", "h", "1", ">", "T", "<", "/", "h", "1", ">">>
      [] f = PageSubA -> <<"<", "p", ">", "T", "<", "/", "p", ">", "\n">>
      [] f = PageB -> <<"<", "b", ">", "T", "<", "/", "b", ">">>

-----------------------------------------------------------------------------
\* MarkdownGenerator

\* txt.py 22-25
Init ==
    /\ builder = "none"
    /\ generated_markdown_files = <<>>
    /\ \E present \in SUBSET Pages : fs = [f \in present |-> PageText(f)]
    /\ pc = "idle"
    /\ exception = FALSE
    /\ html_files = <<>>
    /\ idx = 0
    /\ warned = {}
    /\ llms_opens = 0
    /\ outcome = "none"
    /\ runs = 0
    /\ html_content = <<>>
    /\ source = <<>>
    /\ stage = "idle"

\* txt.py 34-36: app.builder is the HTML builder or some other builder
builder_inited ==
    /\ pc = "idle"
    /\ builder = "none"
    /\ \E b \in {"html", "other"} : builder' = b
    /\ UNCHANGED <<generated_markdown_files, fs, pc, exception, html_files, idx,
                   warned, llms_opens, outcome, runs, convVars>>

\* a first guard that lets a failed build through
SkipsForExceptionNever(exc) == FALSE

\* txt.py 40: if exception
SkipsForException(exc) == exc

\* txt.py 44: if not isinstance(self.builder, StandaloneHTMLBuilder)
SkipsForBuilder(b) == b # "html"

\* txt.py 38-42: the call returns at the first guard
SkipForException ==
    /\ pc = "idle"
    /\ \E exc \in BOOLEAN :
         /\ SkipsForException(exc)
         /\ exception' = exc
    /\ outcome' = "skipped_exception"
    /\ UNCHANGED <<builder, generated_markdown_files, fs, pc, html_files, idx,
                   warned, llms_opens, runs, convVars>>

\* txt.py 38-46: the call returns at the second guard
SkipForBuilder ==
    /\ pc = "idle"
    /\ \E exc \in BOOLEAN :
         /\ ~SkipsForException(exc)
         /\ exception' = exc
    /\ SkipsForBuilder(builder)
    /\ outcome' = "skipped_builder"
    /\ UNCHANGED <<builder, generated_markdown_files, fs, pc, html_files, idx,
                   warned, llms_opens, runs, convVars>>

\* a list that is kept from one call to the next
ResetGeneratedKeeps(old) == old

\* txt.py 53: self.generated_markdown_files = []
ResetGenerated(old) == <<>>

\* txt.py 38-53: past both guards; the traversal yields the HTML files in
\* some order and the list of generated files is reset
Discover ==
    /\ pc = "idle"
    /\ runs < MaxRuns
    /\ \E exc \in BOOLEAN :
         /\ ~SkipsForException(exc)
         /\ exception' = exc
    /\ ~SkipsForBuilder(builder)
    /\ html_files' \in Orders(Rglob(fs))
    /\ generated_markdown_files' = ResetGenerated(generated_markdown_files)
    /\ idx' = 1
    /\ pc' = "convert"
    /\ warned' = {}
    /\ llms_opens' = 0
    /\ outcome' = "running"
    /\ runs' = runs + 1
    /\ UNCHANGED <<builder, fs, convVars>>

\* txt.py 55: the for loop ends when every file of html_files was handled
LoopDone(files, i) == i > Len(files)

\* a failure that ends the loop instead of moving on to the next file
ConvertFailedAborts(f) ==
    /\ warned' = warned \cup {f}
    /\ idx' = Len(html_files) + 1
    /\ pc' = "convert"
    /\ stage' = "idle"
    /\ html_content' = <<>>
    /\ source' = <<>>
    /\ UNCHANGED <<builder, generated_markdown_files, exception, html_files,
                   llms_opens, outcome, runs>>

\* txt.py 87-89 then 57: the warning, return None, and the loop goes on
ConvertFailed(f) ==
    /\ warned' = warned \cup {f}
    /\ idx' = idx + 1
    /\ pc' = "convert"
    /\ stage' = "idle"
    /\ html_content' = <<>>
    /\ source' = <<>>
    /\ UNCHANGED <<builder, generated_markdown_files, exception, html_files,
                   llms_opens, outcome, runs>>

\* txt.py 55-56, 76-79: the file is read and _html_to_markdown is called
ReadHtml ==
    /\ pc = "convert"
    /\ ~LoopDone(html_files, idx)
    /\ CallConvert(fs[html_files[idx]])
    /\ pc' = "converting"
    /\ UNCHANGED <<builder, generated_markdown_files, fs, exception, html_files, idx,
                   warned, llms_opens, outcome, runs>>

\* txt.py 76-77 raise: open or read fails, or the bytes are not UTF-8
ReadHtmlFails ==
    /\ pc = "convert"
    /\ ~LoopDone(html_files, idx)
    /\ ConvertFailed(html_files[idx])
    /\ UNCHANGED fs

\* txt.py 58: self.generated_markdown_files.append(md_file)
AppendGenerated(list, md) == Append(list, md)

\* txt.py 81-86 then 57-58: the Markdown file is written and recorded
WriteMarkdown ==
    /\ pc = "converting"
    /\ stage = "return"
    /\ LET md == WithMd(html_files[idx])
       IN  /\ fs' = WriteFile(fs, md, html_content)
           /\ generated_markdown_files' = AppendGenerated(generated_markdown_files, md)
    /\ idx' = idx + 1
    /\ pc' = "convert"
    /\ stage' = "idle"
    /\ html_content' = <<>>
    /\ source' = <<>>
    /\ UNCHANGED <<builder, exception, html_files, warned, llms_opens, outcome, runs>>

\* txt.py 83 raises: the Markdown file cannot be opened and stays as it was
WriteMarkdownOpenFails ==
    /\ pc = "converting"
    /\ stage = "return"
    /\ ConvertFailed(html_files[idx])
    /\ UNCHANGED fs

\* txt.py 84 raises: the file was opened, so it exists and is empty
WriteMarkdownWriteFails ==
    /\ pc = "converting"
    /\ stage = "return"
    /\ ConvertFailed(html_files[idx])
    /\ fs' = WriteFile(fs, WithMd(html_files[idx]), <<>>)

\* the exception leaves generate_markdown_files: nothing catches it
Raise ==
    /\ pc' = "idle"
    /\ outcome' = "raised"

\* txt.py 60-64: the loop is over and llms.txt is opened for writing
OpenLlms ==
    /\ pc = "convert"
    /\ LoopDone(html_files, idx)
    /\ fs' = WriteFile(fs, LlmsTxt, <<>>)
    /\ llms_opens' = llms_opens + 1
    /\ pc' = "concat"
    /\ idx' = 1
    /\ UNCHANGED <<builder, generated_markdown_files, exception, html_files, warned,
                   outcome, runs, convVars>>

\* txt.py 64 raises
OpenLlmsFails ==
    /\ pc = "convert"
    /\ LoopDone(html_files, idx)
    /\ Raise
    /\ UNCHANGED <<builder, generated_markdown_files, fs, exception, html_files, idx,
                   warned, llms_opens, runs, convVars>>

\* txt.py 65-69: one generated file is read back and its section written
ConcatFile ==
    /\ pc = "concat"
    /\ idx <= Len(generated_markdown_files)
    /\ fs' = WriteFile(fs, LlmsTxt,
                       fs[LlmsTxt] \o Section(fs, generated_markdown_files[idx]))
    /\ idx' = idx + 1
    /\ UNCHANGED <<builder, generated_markdown_files, pc, exception, html_files,
                   warned, llms_opens, outcome, runs, convVars>>

\* txt.py 66 raises: the generated file cannot be opened again
ConcatOpenFails ==
    /\ pc = "concat"
    /\ idx <= Len(generated_markdown_files)
    /\ Raise
    /\ UNCHANGED <<builder, generated_markdown_files, fs, exception, html_files, idx,
                   warned, llms_opens, runs, convVars>>

\* txt.py 68 raises after the heading of line 67 was written
ConcatReadFails ==
    /\ pc = "concat"
    /\ idx <= Len(generated_markdown_files)
    /\ fs' = WriteFile(fs, LlmsTxt,
                       fs[LlmsTxt] \o SectionHeading(generated_markdown_files[idx]))
    /\ Raise
    /\ UNCHANGED <<builder, generated_markdown_files, exception, html_files, idx,
                   warned, llms_opens, runs, convVars>>

\* txt.py 70: llms.txt is closed and the call returns
Finish ==
    /\ pc = "concat"
    /\ idx > Len(generated_markdown_files)
    /\ pc' = "idle"
    /\ outcome' = "returned"
    /\ UNCHANGED <<builder, generated_markdown_files, fs, exception, html_files, idx,
                   warned, llms_opens, runs, convVars>>

Next ==
    \/ builder_inited
    \/ SkipForException
    \/ SkipForBuilder
    \/ Discover
    \/ ReadHtml
    \/ ReadHtmlFails
    \/ ConvertNext
    \/ WriteMarkdown
    \/ WriteMarkdownOpenFails
    \/ WriteMarkdownWriteFails
    \/ OpenLlms
    \/ OpenLlmsFails
    \/ ConcatFile
    \/ ConcatOpenFails
    \/ ConcatReadFails
    \/ Finish

Spec == Init /\ [][Next]_vars

-----------------------------------------------------------------------------
\* _html_to_markdown called on its own, for the claims about the conversion.

NoGenerator ==
    /\ builder = "none"
    /\ generated_markdown_files = <<>>
    /\ fs = <<>>
    /\ pc = "idle"
    /\ exception = FALSE
    /\ html_files = <<>>
    /\ idx = 0
    /\ warned = {}
    /\ llms_opens = 0
    /\ outcome = "none"
    /\ runs = 0

RECURSIVE Flatten(_)
Flatten(parts) == IF parts = <<>> THEN <<>> ELSE Head(parts) \o Flatten(Tail(parts))

\* the texts made of at most max pieces of the set pieces
Texts(pieces, max) == {Flatten(w) : w \in UNION {[1..n -> pieces] : n \in 0..max}}

Para == <<"&", "p", "a", "r", "a", ";">>
Amp == <<"&", "a", "m", "p", ";">>

\* whether part stands somewhere in s
Contains(s, part) == \E i \in 1..(Len(s) - Len(part) + 1) : StartsAt(s, i, part)

IsPrefix(p, s) == Len(p) <= Len(s) /\ SubSeq(s, 1, Len(p)) = p

\* ---- whitespace ----
MaxBlankLen == 6
BlankPieces == {<<"T">>, <<"\n">>, <<"PILCROW">>, Para}
InitBlank == NoGenerator /\ \E t \in Texts(BlankPieces, MaxBlankLen) : Called(t)
SpecBlank == InitBlank /\ [][ConvertNext]_vars

\* ---- links ----
MaxAttrs == 3
HrefU == <<" ", "h", "r", "e", "f", "=", "\"", "u", "\"">>
HrefV == <<" ", "h", "r", "e", "f", "=", "\"", "v", "\"">>
ClassC == <<" ", "c", "l", "a", "s", "s", "=", "\"", "c", "\"">>
DataHrefW == <<" ", "d", "a", "t", "a", "-", "h", "r", "e", "f", "=", "\"", "w", "\"">>
Attrs == {HrefU, HrefV, ClassC, DataHrefW}
\* attribute lists with at least one href attribute
AttrLists ==
    {as \in UNION {[1..n -> Attrs] : n \in 1..MaxAttrs} :
        \E i \in DOMAIN as : as[i] \in {HrefU, HrefV}}
LinkDoc(as) == <<"<", "a">> \o Flatten(as) \o <<">", "L", "<", "/", "a", ">">>
InitLinks == NoGenerator /\ \E as \in AttrLists : Called(LinkDoc(as))
SpecLinks == InitLinks /\ [][ConvertNext]_vars

\* ---- code blocks ----
MaxAround == 1
PreBlock == S_pre \o <<">">> \o S_code \o <<">", "C">> \o E_code_pre
InlineCode == S_code \o <<">", "y">> \o E_code
Around ==
    { <<"<", "p", ">", "T", "<", "/", "p", ">">>,
      <<"<", "e", "m", ">", "T", "<", "/", "e", "m", ">">>,
      <<"<", "l", "i", ">", "T", "<", "/", "l", "i", ">">>,
      <<"T">>, InlineCode }
CodeDocs ==
    {before \o PreBlock \o after :
        before \in Texts(Around, MaxAround), after \in Texts(Around, MaxAround)}
InitCode == NoGenerator /\ \E d \in CodeDocs : Called(d)
SpecCode == InitCode /\ [][ConvertNext]_vars

\* ---- headings ----
MaxTextLen == 4
TextPieces == {<<"T">>, <<" ">>, <<"\n">>, <<"PILCROW">>, Amp}
HeadingDoc(n, text) == S_h(n) \o <<">">> \o text \o E_h(n)
InitHeadings ==
    NoGenerator /\ \E n \in 1..6 : \E t \in Texts(TextPieces, MaxTextLen) :
        Called(HeadingDoc(n, t))
SpecHeadings == InitHeadings /\ [][ConvertNext]_vars

-----------------------------------------------------------------------------
\* Properties of generate_markdown_files, checked under Spec.

\* how many files of html_files the loop of txt.py 55-58 has dealt with
Attempted == IF pc \in {"convert", "converting"} THEN idx - 1 ELSE Len(html_files)

\* the Markdown paths of the files that are not in failed, in the order of files
RECURSIVE Survivors(_, _)
Survivors(files, failed) ==
    IF files = <<>> THEN <<>>
    ELSE (IF Head(files) \in failed THEN <<>> ELSE <<WithMd(Head(files))>>)
           \o Survivors(Tail(files), failed)

ExpectedSection(files, md) ==
    <<"#", " ">> \o NameText(md.name) \o <<"\n", "\n">> \o files[md] \o <<"\n", "\n">>

RECURSIVE ExpectedLlms(_, _)
ExpectedLlms(files, mds) ==
    IF mds = <<>> THEN <<>>
    ELSE ExpectedSection(files, Head(mds)) \o ExpectedLlms(files, Tail(mds))

Returned == pc = "idle" /\ outcome = "returned"

\* C1: a file whose conversion fails is skipped with a warning and the loop goes
\* on: at every point generated_markdown_files holds exactly the Markdown paths
\* of the files handled so far that did not fail, in discovery order, wherever
\* the failing files stand, and what the call writes to llms.txt is made of
\* sections of those paths only.
C1_FailuresAreSkipped ==
    /\ generated_markdown_files = Survivors(SubSeq(html_files, 1, Attempted), warned)
    /\ warned \subseteq {html_files[k] : k \in 1..Attempted}
    /\ llms_opens >= 1 =>
         IsPrefix(fs[LlmsTxt], ExpectedLlms(fs, generated_markdown_files))

\* a finished call in which the second of three files failed
C1_Witness ==
    /\ Returned
    /\ Len(html_files) = 3
    /\ warned = {html_files[2]}
    /\ Len(generated_markdown_files) = 2

\* C2: a call with an exception, or with a builder that is not the HTML builder,
\* returns at once and leaves the output directory and
\* generated_markdown_files as they were.
C2_SkipsTouchNothing ==
    [][(pc = "idle" /\ builder' = builder /\ (exception' \/ builder # "html"))
         => (pc' = "idle" /\ fs' = fs
             /\ generated_markdown_files' = generated_markdown_files)]_vars

\* a failed build reported after an earlier call has produced its files
C2_Witness ==
    /\ outcome = "skipped_exception"
    /\ exception
    /\ generated_markdown_files # <<>>
    /\ LlmsTxt \in DOMAIN fs

\* C3: no call of generate_markdown_files ends with an exception.
C3_NeverRaises == outcome # "raised"

\* a call that went past the two guards has ended, by return or by exception
Ended == pc = "idle" /\ outcome \in {"returned", "raised"}

\* C4: after a call that ran, llms.txt is the sections of the generated files
\* in discovery order and nothing else, each section being the heading with the
\* file name, a blank line, the text of the file and a blank line.
C4_OneSectionPerGeneratedFile ==
    Ended =>
        /\ LlmsTxt \in DOMAIN fs
        /\ fs[LlmsTxt] = ExpectedLlms(fs, generated_markdown_files)
        /\ \A i, j \in DOMAIN generated_markdown_files :
             i < j => \E a, b \in DOMAIN html_files :
                        /\ a < b
                        /\ generated_markdown_files[i] = WithMd(html_files[a])
                        /\ generated_markdown_files[j] = WithMd(html_files[b])

\* C5: in every call that ran, llms.txt was opened for writing once, and only
\* when every file of html_files had been converted or had failed and no
\* conversion was under way.
C5_LlmsTxtWrittenOnceAtTheEnd ==
    /\ llms_opens <= 1
    /\ llms_opens = 1 =>
         /\ pc \in {"concat", "idle"}
         /\ stage = "idle"
         /\ Len(generated_markdown_files) + Cardinality(warned) = Len(html_files)
    /\ Ended => llms_opens = 1

\* C10: when a call in which every conversion succeeded returns, whatever ran
\* before it, generated_markdown_files holds the Markdown path of every HTML page
\* once, only the HTML pages were taken as input, and llms.txt is one section
\* per HTML page.
C10_RerunChangesNothing ==
    (Returned /\ warned = {}) =>
        /\ \A i, j \in DOMAIN generated_markdown_files :
             generated_markdown_files[i] = generated_markdown_files[j] => i = j
        /\ {generated_markdown_files[i] : i \in DOMAIN generated_markdown_files}
             = {WithMd(f) : f \in DOMAIN fs \cap Pages}
        /\ \A k \in DOMAIN html_files : html_files[k] \in Pages
        /\ fs[LlmsTxt] = ExpectedLlms(fs, [k \in DOMAIN html_files |-> WithMd(html_files[k])])

\* the second call over three pages has returned, every generated file and
\* llms.txt of the first call being in the directory it walked
C10_Witness ==
    /\ Returned
    /\ runs = 2
    /\ warned = {}
    /\ Len(generated_markdown_files) = 3

-----------------------------------------------------------------------------
\* Properties of _html_to_markdown.

\* C6: the returned text holds no three line breaks in a row. Checked under
\* SpecBlank.
C6_NoThreeLineBreaks == stage = "return" => ~Contains(html_content, <<"\n", "\n", "\n">>)

\* the value of the first href attribute of the list
FirstHref(as) ==
    LET k == CHOOSE i \in DOMAIN as :
                 /\ as[i] \in {HrefU, HrefV}
                 /\ \A j \in 1..(i - 1) : as[j] \notin {HrefU, HrefV}
    IN  as[k][8]

\* C7: an anchor becomes [text](url) with the url of its first href attribute.
\* Checked under SpecLinks.
C7_FirstHrefIsTheUrl ==
    stage = "return" =>
        \A as \in AttrLists :
            source = LinkDoc(as) =>
                html_content = <<"[", "L", "]", "(", FirstHref(as), ")">>

\* C8: a pre/code pair reaches the code rules intact and is returned as a fenced
\* block whatever stands next to it, and a code element outside pre is returned
\* as inline code. Checked under SpecCode.
C8_PreCodeIsFenced ==
    /\ stage = "code" => Contains(html_content, PreBlock)
    /\ stage = "return" =>
         /\ Contains(html_content, Fence \o <<"\n", "C", "\n">> \o Fence)
         /\ Contains(source, InlineCode) =>
              Contains(html_content, <<"BACKTICK", "y", "BACKTICK">>)

HeadingLevel == DigitValue(source[3])
HeadingText == SubSeq(source, 5, Len(source) - 5)
ExpectedHeading == [i \in 1..HeadingLevel |-> "#"] \o <<" ">> \o HeadingText

\* C9 as stated: for every level and every text without a tag the result starts
\* with the hashes of the level, one space and the text.
C9_AsStated == stage = "return" => IsPrefix(ExpectedHeading, html_content)

\* a text that ends in something other than whitespace and that the entity and
\* whitespace steps leave as it is
PlainText(t) ==
    /\ t # <<>>
    /\ t[Len(t)] \notin WhiteSpace
    /\ \A i \in DOMAIN t : t[i] \notin {"PILCROW", "A_CIRC"}
    /\ ~Contains(t, Amp)
    /\ \A i, j \in DOMAIN t :
         (i < j /\ t[i] = "\n" /\ t[j] = "\n"
            /\ \A k \in i..j : t[k] \in WhiteSpace)
           => Cardinality({k \in i..j : t[k] = "\n"}) < 3

\* C9: for every level from 1 to 6 and every text that has no tag, is not empty,
\* does not end in whitespace, holds no character reference, no pilcrow sign,
\* no A with circumflex and no three line breaks with only whitespace between
\* them, the result starts with the hashes of the level, one space and the text.
\* Checked under SpecHeadings.
C9_PlainHeadings ==
    (stage = "return" /\ PlainText(HeadingText)) => IsPrefix(ExpectedHeading, html_content)

\* a level 3 heading of two words on two lines has been converted
C9_Witness ==
    /\ stage = "return"
    /\ HeadingLevel = 3
    /\ HeadingText = <<"T", " ", "\n", "T">>
    /\ PlainText(HeadingText)

=============================================================================
